---- MODULE Spec2Model ----
(***************************************************************************)
(* Generador IA: the simulated text-generation service (validatePrompt,    *)
(* validateRequest, detectPromptCategory, generateText) and the            *)
(* useGenerateText hook that drives it (generate, reset, abort).           *)
(*                                                                         *)
(* A JavaScript string is a sequence of one-character strings; a prompt    *)
(* value carries its runtime type, because the validators test             *)
(* truthiness and typeof before they look at the text.                     *)
(***************************************************************************)
EXTENDS Integers, Sequences, FiniteSets, TLC

VARIABLES
    state,               \* useState<GenerationState>
    isGeneratingRef,     \* useRef<boolean>: the in-flight marker
    abortControllerRef,  \* useRef<AbortController | null>: 0 is null, else the controller's id
    aborted,             \* ids of the AbortControllers whose signal.aborted is true
    pending,             \* generate calls suspended at `await generateText(request)`
    nextId,              \* id of the next AbortController to be constructed
    lastOp,              \* history: the operation that made the last step
    quietAbort,          \* history: abort() hit a waiting call and no generate was issued since
    quietReset,          \* history: reset() was called and no generate was issued since
    lastOutcome,         \* history: whether the generateText call of the last settled generate threw, and what
    arg,                 \* argument of a direct call of a pure function
    ret                  \* what that call returned or threw

vars == <<state, isGeneratingRef, abortControllerRef, aborted, pending, nextId,
          lastOp, quietAbort, quietReset, lastOutcome, arg, ret>>

hookVars == <<state, isGeneratingRef, abortControllerRef, aborted, pending, nextId,
              lastOp, quietAbort, quietReset, lastOutcome>>

pureVars == <<arg, ret>>

-----------------------------------------------------------------------------
(* Bounds *)

MaxCalls == 3

MaxWords == 3

MaxGap == 1

MaxPad == 2

-----------------------------------------------------------------------------
(* JavaScript values and String.prototype methods *)

Str(s) == [type |-> "string", chars |-> s, num |-> 0]

Undefined == [type |-> "undefined", chars |-> <<>>, num |-> 0]

Num(n) == [type |-> "number", chars |-> <<>>, num |-> n]

\* !v for the values a prompt can take
Falsy(v) ==
    \/ v.type = "undefined"
    \/ v.type = "string" /\ v.chars = <<>>
    \/ v.type = "number" /\ v.num = 0

WhiteSpace == {" ", "\t", "\n"}

UpperCase == <<"A", "B", "C", "D", "E", "F", "G", "H", "I", "J", "K", "L", "M",
               "N", "Ñ", "O", "P", "Q", "R", "S", "T", "U", "V", "W", "X", "Y", "Z">>

LowerCase == <<"a", "b", "c", "d", "e", "f", "g", "h", "i", "j", "k", "l", "m",
               "n", "ñ", "o", "p", "q", "r", "s", "t", "u", "v", "w", "x", "y", "z">>

toLowerCaseChar(c) ==
    IF \E i \in 1..Len(UpperCase) : UpperCase[i] = c
    THEN LowerCase[CHOOSE i \in 1..Len(UpperCase) : UpperCase[i] = c]
    ELSE c

toLowerCase(s) == SubSeq([i \in 1..Len(s) |-> toLowerCaseChar(s[i])], 1, Len(s))

toUpperCaseChar(c) ==
    IF \E i \in 1..Len(LowerCase) : LowerCase[i] = c
    THEN UpperCase[CHOOSE i \in 1..Len(LowerCase) : LowerCase[i] = c]
    ELSE c

toUpperCase(s) == SubSeq([i \in 1..Len(s) |-> toUpperCaseChar(s[i])], 1, Len(s))

includes(s, k) == \E i \in 0..(Len(s) - Len(k)) : SubSeq(s, i + 1, i + Len(k)) = k

trim(s) ==
    IF \A i \in 1..Len(s) : s[i] \in WhiteSpace THEN <<>>
    ELSE LET first == CHOOSE i \in 1..Len(s) :
                          s[i] \notin WhiteSpace /\ \A j \in 1..(i - 1) : s[j] \in WhiteSpace
             last == CHOOSE i \in 1..Len(s) :
                         s[i] \notin WhiteSpace /\ \A j \in (i + 1)..Len(s) : s[j] \in WhiteSpace
         IN  SubSeq(s, first, last)

-----------------------------------------------------------------------------
(* API_CONFIG *)

MIN_PROMPT_LENGTH == 3

MAX_PROMPT_LENGTH == 2000

-----------------------------------------------------------------------------
(* validateRequest: returns normally or throws an ApiError *)

NoError == [threw |-> FALSE, code |-> "none", message |-> "none", status |-> 0]

ApiError(c, m, st) == [threw |-> TRUE, code |-> c, message |-> m, status |-> st]

validateRequestSwappedCodes(request) ==
    IF Falsy(request.prompt) \/ request.prompt.type # "string"
    THEN ApiError("INVALID_PROMPT", "El prompt es requerido y debe ser una cadena de texto", 400)
    ELSE IF Len(trim(request.prompt.chars)) < MIN_PROMPT_LENGTH
    THEN ApiError("PROMPT_TOO_LONG", "El prompt no puede exceder 2000 caracteres", 400)
    ELSE IF Len(trim(request.prompt.chars)) > MAX_PROMPT_LENGTH
    THEN ApiError("PROMPT_TOO_SHORT", "El prompt debe tener al menos 3 caracteres", 400)
    ELSE NoError

validateRequestStrictMinimum(request) ==
    IF Falsy(request.prompt) \/ request.prompt.type # "string"
    THEN ApiError("INVALID_PROMPT", "El prompt es requerido y debe ser una cadena de texto", 400)
    ELSE IF Len(trim(request.prompt.chars)) <= MIN_PROMPT_LENGTH
    THEN ApiError("PROMPT_TOO_SHORT", "El prompt debe tener al menos 3 caracteres", 400)
    ELSE IF Len(trim(request.prompt.chars)) > MAX_PROMPT_LENGTH
    THEN ApiError("PROMPT_TOO_LONG", "El prompt no puede exceder 2000 caracteres", 400)
    ELSE NoError

validateRequest(request) ==
    IF Falsy(request.prompt) \/ request.prompt.type # "string"
    THEN ApiError("INVALID_PROMPT", "El prompt es requerido y debe ser una cadena de texto", 400)
    ELSE LET trimmedPrompt == trim(request.prompt.chars)
         IN  IF Len(trimmedPrompt) < MIN_PROMPT_LENGTH
             THEN ApiError("PROMPT_TOO_SHORT", "El prompt debe tener al menos 3 caracteres", 400)
             ELSE IF Len(trimmedPrompt) > MAX_PROMPT_LENGTH
             THEN ApiError("PROMPT_TOO_LONG", "El prompt no puede exceder 2000 caracteres", 400)
             ELSE NoError

(* validatePrompt: the standalone validator, returns {isValid, error?} *)

validatePromptNoMinimum(prompt) ==
    IF Falsy(prompt) \/ prompt.type # "string"
    THEN [isValid |-> FALSE, error |-> "El prompt es requerido"]
    ELSE IF Len(trim(prompt.chars)) > MAX_PROMPT_LENGTH
    THEN [isValid |-> FALSE, error |-> "El prompt no puede exceder 2000 caracteres"]
    ELSE [isValid |-> TRUE, error |-> "undefined"]

validatePromptUntrimmed(prompt) ==
    IF Falsy(prompt) \/ prompt.type # "string"
    THEN [isValid |-> FALSE, error |-> "El prompt es requerido"]
    ELSE IF Len(prompt.chars) < MIN_PROMPT_LENGTH
    THEN [isValid |-> FALSE, error |-> "El prompt debe tener al menos 3 caracteres"]
    ELSE IF Len(prompt.chars) > MAX_PROMPT_LENGTH
    THEN [isValid |-> FALSE, error |-> "El prompt no puede exceder 2000 caracteres"]
    ELSE [isValid |-> TRUE, error |-> "undefined"]

validatePromptNoMaximum(prompt) ==
    IF Falsy(prompt) \/ prompt.type # "string"
    THEN [isValid |-> FALSE, error |-> "El prompt es requerido"]
    ELSE IF Len(trim(prompt.chars)) < MIN_PROMPT_LENGTH
    THEN [isValid |-> FALSE, error |-> "El prompt debe tener al menos 3 caracteres"]
    ELSE [isValid |-> TRUE, error |-> "undefined"]

validatePrompt(prompt) ==
    IF Falsy(prompt) \/ prompt.type # "string"
    THEN [isValid |-> FALSE, error |-> "El prompt es requerido"]
    ELSE LET trimmedPrompt == trim(prompt.chars)
         IN  IF Len(trimmedPrompt) < MIN_PROMPT_LENGTH
             THEN [isValid |-> FALSE, error |-> "El prompt debe tener al menos 3 caracteres"]
             ELSE IF Len(trimmedPrompt) > MAX_PROMPT_LENGTH
             THEN [isValid |-> FALSE, error |-> "El prompt no puede exceder 2000 caracteres"]
             ELSE [isValid |-> TRUE, error |-> "undefined"]

-----------------------------------------------------------------------------
(* Keyword lists of detectPromptCategory *)

NameKeywords == {<<"n", "o", "m", "b", "r", "e">>,
                 <<"n", "a", "m", "e", "s">>}

MaleKeywords == {<<"c", "h", "i", "c", "o">>,
                 <<"n", "i", "ñ", "o">>,
                 <<"h", "o", "m", "b", "r", "e">>,
                 <<"m", "a", "s", "c", "u", "l", "i", "n", "o">>,
                 <<"b", "o", "y">>,
                 <<"m", "a", "l", "e">>}

FemaleKeywordsWithoutChica == {<<"n", "i", "ñ", "a">>,
                               <<"m", "u", "j", "e", "r">>,
                               <<"f", "e", "m", "e", "n", "i", "n", "o">>,
                               <<"g", "i", "r", "l">>,
                               <<"f", "e", "m", "a", "l", "e">>}

FemaleKeywords == {<<"c", "h", "i", "c", "a">>,
                   <<"n", "i", "ñ", "a">>,
                   <<"m", "u", "j", "e", "r">>,
                   <<"f", "e", "m", "e", "n", "i", "n", "o">>,
                   <<"g", "i", "r", "l">>,
                   <<"f", "e", "m", "a", "l", "e">>}

ProductKeywords == {<<"p", "r", "o", "d", "u", "c", "t", "o">>,
                    <<"p", "r", "o", "d", "u", "c", "t">>,
                    <<"d", "e", "s", "c", "r", "i", "p", "c", "i", "ó", "n">>,
                    <<"d", "e", "s", "c", "r", "i", "p", "t", "i", "o", "n">>}

EmailKeywords == {<<"e", "m", "a", "i", "l">>,
                  <<"c", "o", "r", "r", "e", "o">>,
                  <<"c", "a", "r", "t", "a">>,
                  <<"l", "e", "t", "t", "e", "r">>}

StoryKeywords == {<<"h", "i", "s", "t", "o", "r", "i", "a">>,
                  <<"s", "t", "o", "r", "y">>,
                  <<"c", "u", "e", "n", "t", "o">>,
                  <<"t", "a", "l", "e">>,
                  <<"r", "e", "l", "a", "t", "o">>,
                  <<"n", "a", "r", "r", "a", "t", "i", "v", "a">>}

SloganKeywords == {<<"s", "l", "o", "g", "a", "n">>,
                   <<"e", "s", "l", "o", "g", "a", "n">>,
                   <<"l", "e", "m", "a">>,
                   <<"t", "a", "g", "l", "i", "n", "e">>,
                   <<"m", "a", "r", "k", "e", "t", "i", "n", "g">>}

CodeKeywords == {<<"c", "ó", "d", "i", "g", "o">>,
                 <<"c", "o", "d", "e">>,
                 <<"p", "r", "o", "g", "r", "a", "m", "a", "r">>,
                 <<"f", "u", "n", "c", "t", "i", "o", "n">>,
                 <<"j", "a", "v", "a", "s", "c", "r", "i", "p", "t">>,
                 <<"p", "y", "t", "h", "o", "n">>}

RecipeKeywords == {<<"r", "e", "c", "e", "t", "a">>,
                   <<"r", "e", "c", "i", "p", "e">>,
                   <<"c", "o", "c", "i", "n", "a", "r">>,
                   <<"c", "o", "o", "k">>,
                   <<"c", "o", "m", "i", "d", "a">>,
                   <<"f", "o", "o", "d">>}

ListKeywords == {<<"l", "i", "s", "t", "a">>,
                 <<"l", "i", "s", "t">>,
                 <<"e", "n", "u", "m", "e", "r", "a">>,
                 <<"e", "n", "u", "m", "e", "r", "a", "t", "e">>}

IdeaKeywords == {<<"i", "d", "e", "a">>,
                 <<"s", "u", "g", "e", "r", "e", "n", "c", "i", "a">>,
                 <<"s", "u", "g", "g", "e", "s", "t", "i", "o", "n">>,
                 <<"p", "r", "o", "p", "u", "e", "s", "t", "a">>}

includesAny(s, ks) == \E k \in ks : includes(s, k)

(* detectPromptCategory: the category key, or "null" *)

detectPromptCategoryStoryFirst(prompt) ==
    LET lowerPrompt == toLowerCase(prompt)
    IN  IF includesAny(lowerPrompt, NameKeywords) /\ includesAny(lowerPrompt, MaleKeywords)
        THEN "nombres_chicos"
        ELSE IF includesAny(lowerPrompt, NameKeywords) /\ includesAny(lowerPrompt, FemaleKeywords)
        THEN "nombres_chicas"
        ELSE IF /\ includes(lowerPrompt, <<"n", "o", "m", "b", "r", "e">>)
                /\ ~includes(lowerPrompt, <<"c", "h", "i", "c", "o">>)
                /\ ~includes(lowerPrompt, <<"c", "h", "i", "c", "a">>)
        THEN "nombres_chicos"
        ELSE IF includesAny(lowerPrompt, ProductKeywords)
        THEN "producto"
        ELSE IF includesAny(lowerPrompt, StoryKeywords)
        THEN "historia"
        ELSE IF includesAny(lowerPrompt, EmailKeywords)
        THEN "email"
        ELSE IF includesAny(lowerPrompt, SloganKeywords)
        THEN "slogan"
        ELSE IF includesAny(lowerPrompt, CodeKeywords)
        THEN "codigo"
        ELSE IF includesAny(lowerPrompt, RecipeKeywords)
        THEN "receta"
        ELSE IF includesAny(lowerPrompt, ListKeywords)
        THEN "lista"
        ELSE IF includesAny(lowerPrompt, IdeaKeywords)
        THEN "ideas"
        ELSE "null"

detectPromptCategoryCaseSensitive(prompt) ==
    LET lowerPrompt == prompt
    IN  IF includesAny(lowerPrompt, NameKeywords) /\ includesAny(lowerPrompt, MaleKeywords)
        THEN "nombres_chicos"
        ELSE IF includesAny(lowerPrompt, NameKeywords) /\ includesAny(lowerPrompt, FemaleKeywords)
        THEN "nombres_chicas"
        ELSE IF /\ includes(lowerPrompt, <<"n", "o", "m", "b", "r", "e">>)
                /\ ~includes(lowerPrompt, <<"c", "h", "i", "c", "o">>)
                /\ ~includes(lowerPrompt, <<"c", "h", "i", "c", "a">>)
        THEN "nombres_chicos"
        ELSE IF includesAny(lowerPrompt, ProductKeywords)
        THEN "producto"
        ELSE IF includesAny(lowerPrompt, EmailKeywords)
        THEN "email"
        ELSE IF includesAny(lowerPrompt, StoryKeywords)
        THEN "historia"
        ELSE IF includesAny(lowerPrompt, SloganKeywords)
        THEN "slogan"
        ELSE IF includesAny(lowerPrompt, CodeKeywords)
        THEN "codigo"
        ELSE IF includesAny(lowerPrompt, RecipeKeywords)
        THEN "receta"
        ELSE IF includesAny(lowerPrompt, ListKeywords)
        THEN "lista"
        ELSE IF includesAny(lowerPrompt, IdeaKeywords)
        THEN "ideas"
        ELSE "null"

detectPromptCategoryNoDefault(prompt) ==
    LET lowerPrompt == toLowerCase(prompt)
    IN  IF includesAny(lowerPrompt, NameKeywords) /\ includesAny(lowerPrompt, MaleKeywords)
        THEN "nombres_chicos"
        ELSE IF includesAny(lowerPrompt, NameKeywords) /\ includesAny(lowerPrompt, FemaleKeywords)
        THEN "nombres_chicas"
        ELSE IF includesAny(lowerPrompt, ProductKeywords)
        THEN "producto"
        ELSE IF includesAny(lowerPrompt, EmailKeywords)
        THEN "email"
        ELSE IF includesAny(lowerPrompt, StoryKeywords)
        THEN "historia"
        ELSE IF includesAny(lowerPrompt, SloganKeywords)
        THEN "slogan"
        ELSE IF includesAny(lowerPrompt, CodeKeywords)
        THEN "codigo"
        ELSE IF includesAny(lowerPrompt, RecipeKeywords)
        THEN "receta"
        ELSE IF includesAny(lowerPrompt, ListKeywords)
        THEN "lista"
        ELSE IF includesAny(lowerPrompt, IdeaKeywords)
        THEN "ideas"
        ELSE "null"

detectPromptCategory(prompt) ==
    LET lowerPrompt == toLowerCase(prompt)
    IN  IF includesAny(lowerPrompt, NameKeywords) /\ includesAny(lowerPrompt, MaleKeywords)
        THEN "nombres_chicos"
        ELSE IF includesAny(lowerPrompt, NameKeywords) /\ includesAny(lowerPrompt, FemaleKeywords)
        THEN "nombres_chicas"
        ELSE IF /\ includes(lowerPrompt, <<"n", "o", "m", "b", "r", "e">>)
                /\ ~includes(lowerPrompt, <<"c", "h", "i", "c", "o">>)
                /\ ~includes(lowerPrompt, <<"c", "h", "i", "c", "a">>)
        THEN "nombres_chicos"
        ELSE IF includesAny(lowerPrompt, ProductKeywords)
        THEN "producto"
        ELSE IF includesAny(lowerPrompt, EmailKeywords)
        THEN "email"
        ELSE IF includesAny(lowerPrompt, StoryKeywords)
        THEN "historia"
        ELSE IF includesAny(lowerPrompt, SloganKeywords)
        THEN "slogan"
        ELSE IF includesAny(lowerPrompt, CodeKeywords)
        THEN "codigo"
        ELSE IF includesAny(lowerPrompt, RecipeKeywords)
        THEN "receta"
        ELSE IF includesAny(lowerPrompt, ListKeywords)
        THEN "lista"
        ELSE IF includesAny(lowerPrompt, IdeaKeywords)
        THEN "ideas"
        ELSE "null"

-----------------------------------------------------------------------------
(* generateText: the simulated API.  The call runs synchronously up to      *)
(* `await simulateNetworkDelay()` and resumes when the delay has elapsed.   *)

NoSignal == 0

\* a response text: a template of SPECIFIC_RESPONSES, or a generic template
\* with the quoted piece of the prompt interpolated into it
NullText == [kind |-> "null", key |-> "null", index |-> 0, echo |-> <<>>]

\* SPECIFIC_RESPONSES: under each category key, the list of its templates,
\* each template given by its length in UTF-16 code units
SPECIFIC_RESPONSES_TwoRecipes ==
    [k \in {"nombres_chicos", "nombres_chicas", "producto", "email", "historia",
            "slogan", "codigo", "receta", "lista", "ideas"} |->
        CASE k = "nombres_chicos" -> <<340>>
          [] k = "nombres_chicas" -> <<340>>
          [] k = "producto" -> <<514>>
          [] k = "email" -> <<447>>
          [] k = "historia" -> <<691>>
          [] k = "slogan" -> <<524>>
          [] k = "codigo" -> <<606>>
          [] k = "receta" -> <<724, 731>>
          [] k = "lista" -> <<480>>
          [] k = "ideas" -> <<665>>]

SPECIFIC_RESPONSES ==
    [k \in {"nombres_chicos", "nombres_chicas", "producto", "email", "historia",
            "slogan", "codigo", "receta", "lista", "ideas"} |->
        CASE k = "nombres_chicos" -> <<340>>
          [] k = "nombres_chicas" -> <<340>>
          [] k = "producto" -> <<514>>
          [] k = "email" -> <<447>>
          [] k = "historia" -> <<691>>
          [] k = "slogan" -> <<524>>
          [] k = "codigo" -> <<606>>
          [] k = "receta" -> <<724>>
          [] k = "lista" -> <<480>>
          [] k = "ideas" -> <<665>>]

\* generateGenericResponse holds this many templates
GenericResponses == 2

\* the length of each generic template without its interpolation
GenericTemplateLength == <<601, 512>>

\* String.prototype.substring(from, to) for 0 <= from <= to
substring(s, from, to) == SubSeq(s, from + 1, IF to < Len(s) THEN to ELSE Len(s))

QuoteLength == 50

Ellipsis == <<".", ".", ".">>

generateGenericResponseEllipsisFrom50(prompt) ==
    {[kind |-> "generic", key |-> "null", index |-> i,
      echo |-> substring(prompt, 0, QuoteLength)
                  \o (IF Len(prompt) >= QuoteLength THEN Ellipsis ELSE <<>>)] :
        i \in 1..GenericResponses}

\* generateGenericResponse: Math.random picks one of the templates
generateGenericResponse(prompt) ==
    {[kind |-> "generic", key |-> "null", index |-> i,
      echo |-> substring(prompt, 0, QuoteLength)
                  \o (IF Len(prompt) > QuoteLength THEN Ellipsis ELSE <<>>)] :
        i \in 1..GenericResponses}

\* result.length
length(text) ==
    IF text.kind = "specific" THEN SPECIFIC_RESPONSES[text.key][text.index]
    ELSE IF text.kind = "generic" THEN GenericTemplateLength[text.index] + Len(text.echo)
    ELSE 0

NoMetadata == [model |-> "none", tokensUsed |-> 0]

Thrown(e) == [threw |-> TRUE, code |-> e.code, message |-> e.message,
              status |-> e.status, result |-> NullText, metadata |-> NoMetadata]

ReturnedRoundedUp(r) ==
    [threw |-> FALSE, code |-> "none", message |-> "none", status |-> 0, result |-> r,
     metadata |-> [model |-> "simulated-ai-v1", tokensUsed |-> (length(r) + 3) \div 4]]

\* the GenerateTextResponse; processingTime (Date.now()) is left out
Returned(r) ==
    [threw |-> FALSE, code |-> "none", message |-> "none", status |-> 0, result |-> r,
     metadata |-> [model |-> "simulated-ai-v1", tokensUsed |-> length(r) \div 4]]

Suspended == [threw |-> FALSE, code |-> "none", message |-> "none",
              status |-> 0, result |-> NullText, metadata |-> NoMetadata]

REQUEST_ABORTED == ApiError("REQUEST_ABORTED", "La solicitud fue cancelada", 499)

\* up to the await: validateRequest, then the first look at the signal
generateTextBeginSignalFirst(request, signal, abortedSignals) ==
    LET v == validateRequest(request)
    IN  IF signal # NoSignal /\ signal \in abortedSignals THEN Thrown(REQUEST_ABORTED)
        ELSE IF v.threw THEN Thrown(v)
        ELSE Suspended

generateTextBegin(request, signal, abortedSignals) ==
    LET v == validateRequest(request)
    IN  IF v.threw THEN Thrown(v)
        ELSE IF signal # NoSignal /\ signal \in abortedSignals THEN Thrown(REQUEST_ABORTED)
        ELSE Suspended

generateTextResumeUnchecked(request, signal, abortedSignals) ==
    LET category == detectPromptCategory(request.prompt.chars)
    IN  IF category # "null" /\ category \in DOMAIN SPECIFIC_RESPONSES
        THEN {Returned([kind |-> "specific", key |-> category, index |-> i, echo |-> <<>>]) :
                  i \in 1..Len(SPECIFIC_RESPONSES[category])}
        ELSE {Returned(r) : r \in generateGenericResponse(request.prompt.chars)}

\* after the await: the second look at the signal, then classify and pick a template
generateTextResume(request, signal, abortedSignals) ==
    IF signal # NoSignal /\ signal \in abortedSignals
    THEN {Thrown(REQUEST_ABORTED)}
    ELSE LET category == detectPromptCategory(request.prompt.chars)
         IN  IF category # "null" /\ category \in DOMAIN SPECIFIC_RESPONSES
             THEN {Returned([kind |-> "specific", key |-> category, index |-> i,
                             echo |-> <<>>]) :
                       i \in 1..Len(SPECIFIC_RESPONSES[category])}
             ELSE {Returned(r) : r \in generateGenericResponse(request.prompt.chars)}

-----------------------------------------------------------------------------
(* useGenerateText *)

INITIAL_STATE ==
    [status |-> "idle", data |-> NullText, error |-> "null",
     isLoading |-> FALSE, isSuccess |-> FALSE, isError |-> FALSE]

LoadingState ==
    [status |-> "loading", data |-> NullText, error |-> "null",
     isLoading |-> TRUE, isSuccess |-> FALSE, isError |-> FALSE]

SuccessStateWithoutData(result) ==
    [status |-> "success", data |-> NullText, error |-> "null",
     isLoading |-> FALSE, isSuccess |-> TRUE, isError |-> FALSE]

\* generate, lines 140-148: the state written when generateText returned
SuccessState(result) ==
    [status |-> "success", data |-> result, error |-> "null",
     isLoading |-> FALSE, isSuccess |-> TRUE, isError |-> FALSE]

ErrorState(message) ==
    [status |-> "error", data |-> NullText, error |-> message,
     isLoading |-> FALSE, isSuccess |-> FALSE, isError |-> TRUE]

CurrentSignalUnchecked(ref, abortedSignals) == FALSE

CurrentSignalAlwaysAborted(ref, abortedSignals) == TRUE

\* abortControllerRef.current?.signal.aborted
CurrentSignalAborted(ref, abortedSignals) == ref # 0 /\ ref \in abortedSignals

AbortCurrentSkipped(ref, abortedSignals) == abortedSignals

\* abortControllerRef.current.abort(), guarded by `if (abortControllerRef.current)`
AbortCurrent(ref, abortedSignals) ==
    IF ref # 0 THEN abortedSignals \cup {ref} ELSE abortedSignals

NoPrompt == Undefined

Op(name, prompt, outcome, id) ==
    [op |-> name, prompt |-> prompt, outcome |-> outcome, id |-> id]

\* a call is in its simulated wait
Waiting == \E c \in pending : ~c.begun.threw


OrElse(message, fallback) == IF message \in {"", "undefined"} THEN fallback ELSE message

MarkerKept(inProgress) == inProgress

\* generate, lines 165-167: the finally block
FinallyMarker(inProgress) == FALSE

\* generate, lines 101-105: prevent multiple simultaneous requests
GuardUnchecked(inProgress) == FALSE

SingleFlightGuard(inProgress) == inProgress

CancelPreviousSkipped(ref, abortedSignals) == abortedSignals

\* generate, lines 107-110: cancel any previous request
CancelPrevious(ref, abortedSignals) == AbortCurrent(ref, abortedSignals)

\* generate, lines 126-133: the request the hook sends
HookRequest(prompt) == [prompt |-> Str(trim(prompt.chars))]

-----------------------------------------------------------------------------
(* Inputs of the hook's callers *)

Chars(n, c) == SubSeq([i \in 1..n |-> c], 1, n)

RecetaPrompt == Str(<<" ", "r", "e", "c", "e", "t", "a", "\n">>)

PlainPrompt == Str(<<"h", "o", "l", "a">>)

ShortPrompt == Str(<<" ", "h", "i", " ">>)

LongPrompt == Str(Chars(MAX_PROMPT_LENGTH + 1, "x"))

HookPrompts == {RecetaPrompt, PlainPrompt, ShortPrompt, LongPrompt, Undefined}

-----------------------------------------------------------------------------
(* The hook's operations *)

NotCalled ==
    [vp |-> [called |-> FALSE, isValid |-> FALSE, error |-> "undefined"],
     vr |-> [called |-> FALSE, error |-> NoError],
     vrTrimmed |-> [called |-> FALSE, error |-> NoError],
     category |-> "not called",
     again |-> [called |-> FALSE, prompt |-> <<>>, category |-> "not called"],
     gen |-> [phase |-> "not called", signal |-> NoSignal, waited |-> FALSE,
              abortedAt |-> "never", outcome |-> Suspended]]

HookInit ==
    /\ state = INITIAL_STATE
    /\ isGeneratingRef = FALSE
    /\ abortControllerRef = 0
    /\ aborted = {}
    /\ pending = {}
    /\ nextId = 1
    /\ lastOp = Op("none", NoPrompt, "none", 0)
    /\ quietAbort = FALSE
    /\ quietReset = FALSE
    /\ lastOutcome = [threw |-> FALSE, code |-> "none"]

Init ==
    /\ HookInit
    /\ arg = NoPrompt
    /\ ret = NotCalled

\* generate(prompt), up to its await
Generate(prompt) ==
    LET validation == validatePrompt(prompt)
    IN  /\ quietAbort' = FALSE
        /\ quietReset' = FALSE
        /\ UNCHANGED lastOutcome
        /\ IF ~validation.isValid
           THEN /\ state' = ErrorState(OrElse(validation.error, "Invalid prompt"))
                /\ lastOp' = Op("generate", prompt, "invalid", 0)
                /\ UNCHANGED <<isGeneratingRef, abortControllerRef, aborted, pending, nextId>>
           ELSE IF SingleFlightGuard(isGeneratingRef)
           THEN /\ lastOp' = Op("generate", prompt, "refused", 0)
                /\ UNCHANGED <<state, isGeneratingRef, abortControllerRef, aborted,
                               pending, nextId>>
           ELSE /\ nextId <= MaxCalls
                /\ aborted' = CancelPrevious(abortControllerRef, aborted)
                /\ abortControllerRef' = nextId
                /\ nextId' = nextId + 1
                /\ isGeneratingRef' = TRUE
                /\ state' = LoadingState
                /\ pending' = pending \cup
                       {[id |-> nextId,
                         request |-> HookRequest(prompt),
                         signal |-> NoSignal,
                         begun |-> generateTextBegin(HookRequest(prompt), NoSignal, aborted')]}
                /\ lastOp' = Op("generate", prompt, "started", nextId)
        /\ UNCHANGED pureVars

\* the awaited generateText call of c settles and generate runs to its end
Settle(c) ==
    /\ c \in pending
    /\ \E o \in IF c.begun.threw THEN {c.begun}
                ELSE generateTextResume(c.request, c.signal, aborted) :
          /\ state' = IF CurrentSignalAborted(abortControllerRef, aborted) THEN state
                      ELSE IF o.threw
                           THEN ErrorState(OrElse(o.message, "An unexpected error occurred"))
                           ELSE SuccessState(o.result)
          /\ lastOutcome' = [threw |-> o.threw, code |-> o.code]
    /\ isGeneratingRef' = FinallyMarker(isGeneratingRef)
    /\ pending' = pending \ {c}
    /\ lastOp' = Op("settle", c.request.prompt, IF c.id \in aborted THEN "cancelled" ELSE "live", c.id)
    /\ UNCHANGED <<abortControllerRef, aborted, nextId, quietAbort, quietReset>>
    /\ UNCHANGED pureVars

\* one of the suspended calls resumes
SettleSome == \E c \in pending : Settle(c)

Reset ==
    /\ aborted' = AbortCurrent(abortControllerRef, aborted)
    /\ isGeneratingRef' = FALSE
    /\ state' = INITIAL_STATE
    /\ lastOp' = Op("reset", NoPrompt, "none", 0)
    /\ quietReset' = TRUE
    /\ UNCHANGED <<abortControllerRef, pending, nextId, quietAbort, lastOutcome>>
    /\ UNCHANGED pureVars

Abort ==
    /\ IF abortControllerRef # 0
       THEN /\ aborted' = AbortCurrent(abortControllerRef, aborted)
            /\ isGeneratingRef' = FALSE
            /\ state' = [state EXCEPT !.status = "idle", !.isLoading = FALSE]
            /\ quietAbort' = (quietAbort \/ Waiting)
       ELSE UNCHANGED <<aborted, isGeneratingRef, state, quietAbort>>
    /\ lastOp' = Op("abort", NoPrompt, "none", 0)
    /\ UNCHANGED <<abortControllerRef, pending, nextId, quietReset, lastOutcome>>
    /\ UNCHANGED pureVars

Next ==
    \/ \E prompt \in HookPrompts : Generate(prompt)
    \/ SettleSome
    \/ Reset
    \/ Abort

Spec == Init /\ [][Next]_vars

\* the simulated wait of the call with this id ends: the call leaves the
\* suspended calls.  Within Next this step is Settle of that call, which is
\* enabled whenever the call is suspended.
SettleCall(id) == \E c \in pending : c.id = id /\ pending' = pending \ {c}

\* every simulated wait is a setTimeout of 800 to 2000 ms, and the timer of
\* each started call fires: a suspended call does not stay suspended forever
FairSpec == Spec /\ \A id \in 1..MaxCalls : WF_pending(SettleCall(id))

-----------------------------------------------------------------------------
(* Direct calls of the validators: the prompts they are tried on *)

Lead(n) == SubSeq([i \in 1..n |-> IF i % 2 = 1 THEN " " ELSE "\t"], 1, n)

Trail(n) == SubSeq([i \in 1..n |-> IF i % 2 = 1 THEN "\n" ELSE " "], 1, n)

\* n characters that begin and end with a letter, with a blank inside when there is room
Body(n) == SubSeq([i \in 1..n |-> IF i = 2 /\ n >= 3 THEN " " ELSE "x"], 1, n)

BodyLengths == {0, 1, MIN_PROMPT_LENGTH - 1, MIN_PROMPT_LENGTH, MIN_PROMPT_LENGTH + 1,
                MAX_PROMPT_LENGTH - 1, MAX_PROMPT_LENGTH, MAX_PROMPT_LENGTH + 1}

ValidateInputs ==
    {Str(Lead(l) \o Body(n) \o Trail(t)) : l \in 0..MaxPad, n \in BodyLengths, t \in 0..MaxPad}
        \cup {Undefined, Num(0), Num(42)}

InitValidate ==
    /\ HookInit
    /\ arg \in ValidateInputs
    /\ ret = NotCalled

\* validate(prompt) of the hook: validatePrompt(prompt)
CallValidatePrompt ==
    /\ ~ret.vp.called
    /\ ret' = [ret EXCEPT !.vp = [called |-> TRUE,
                                  isValid |-> validatePrompt(arg).isValid,
                                  error |-> validatePrompt(arg).error]]
    /\ UNCHANGED arg
    /\ UNCHANGED hookVars

\* validateRequest({prompt}) as generateText runs it on the request it is handed
CallValidateRequest ==
    /\ ~ret.vr.called
    /\ ret' = [ret EXCEPT !.vr = [called |-> TRUE, error |-> validateRequest([prompt |-> arg])]]
    /\ UNCHANGED arg
    /\ UNCHANGED hookVars

\* validateRequest on the request the hook builds from a text prompt
CallValidateRequestTrimmed ==
    /\ ~ret.vrTrimmed.called
    /\ arg.type = "string"
    /\ ret' = [ret EXCEPT !.vrTrimmed = [called |-> TRUE,
                                         error |-> validateRequest(HookRequest(arg))]]
    /\ UNCHANGED arg
    /\ UNCHANGED hookVars

NextValidate ==
    \/ CallValidatePrompt
    \/ CallValidateRequest
    \/ CallValidateRequestTrimmed

SpecValidate == InitValidate /\ [][NextValidate]_vars

-----------------------------------------------------------------------------
(* Direct calls of the classifier: the prompts it is tried on *)

Vocabulary ==
    <<<<"n", "o", "m", "b", "r", "e">>,
      <<"n", "a", "m", "e", "s">>,
      <<"N", "O", "M", "B", "R", "E">>,
      <<"c", "h", "i", "c", "o">>,
      <<"m", "a", "l", "e">>,
      <<"c", "h", "i", "c", "a">>,
      <<"f", "e", "m", "a", "l", "e">>,
      <<"N", "i", "ñ", "a">>,
      <<"p", "r", "o", "d", "u", "c", "t", "o">>,
      <<"e", "m", "a", "i", "l">>,
      <<"s", "t", "o", "r", "y">>,
      <<"s", "l", "o", "g", "a", "n">>,
      <<"c", "o", "d", "e">>,
      <<"r", "e", "c", "e", "t", "a">>,
      <<"l", "i", "s", "t">>,
      <<"i", "d", "e", "a">>,
      <<"h", "o", "l", "a">>,
      <<"m", "u", "j", "e", "r">>,
      <<"f", "e", "m", "e", "n", "i", "n", "o">>,
      <<"g", "i", "r", "l">>>>

AllKeywords ==
    NameKeywords \cup MaleKeywords \cup FemaleKeywords \cup ProductKeywords
        \cup EmailKeywords \cup StoryKeywords \cup SloganKeywords \cup CodeKeywords
        \cup RecipeKeywords \cup ListKeywords \cup IdeaKeywords

RECURSIVE Phrase(_, _)
\* the words of Vocabulary at the indices I, in order, gap blanks between two words
Phrase(I, gap) ==
    IF I = {} THEN <<>>
    ELSE LET i == CHOOSE k \in I : \A j \in I : k <= j
         IN  IF I = {i} THEN Vocabulary[i]
             ELSE Vocabulary[i] \o Chars(gap, " ") \o Phrase(I \ {i}, gap)

ClassifyInputs ==
    {Str(Phrase(I, gap)) :
        I \in {J \in SUBSET (1..Len(Vocabulary)) : Cardinality(J) <= MaxWords},
        gap \in 0..MaxGap}
        \cup {Str(k) : k \in AllKeywords}

InitClassify ==
    /\ HookInit
    /\ arg \in ClassifyInputs
    /\ ret = NotCalled

CallDetectPromptCategory ==
    /\ ret.category = "not called"
    /\ ret' = [ret EXCEPT !.category = detectPromptCategory(arg.chars)]
    /\ UNCHANGED arg
    /\ UNCHANGED hookVars

\* the same text in another letter case: as typed, and all in capitals
CaseVariants(prompt) == {prompt, Str(toUpperCase(prompt.chars))}

\* a second call, on a prompt that equals the first one after lower-casing
CallDetectPromptCategoryAgain ==
    /\ ret.category # "not called"
    /\ ~ret.again.called
    /\ \E other \in CaseVariants(arg) :
          ret' = [ret EXCEPT !.again = [called |-> TRUE, prompt |-> other.chars,
                                        category |-> detectPromptCategory(other.chars)]]
    /\ UNCHANGED arg
    /\ UNCHANGED hookVars

NextClassify ==
    \/ CallDetectPromptCategory
    \/ CallDetectPromptCategoryAgain

SpecClassify == InitClassify /\ [][NextClassify]_vars


-----------------------------------------------------------------------------
(* Direct calls of generateText, with or without an AbortSignal of the caller *)

Digits == <<"0", "1", "2", "3", "4", "5", "6", "7", "8", "9">>

\* n characters that hold no keyword, no two neighbours alike
Filler(n) == SubSeq([i \in 1..n |-> Digits[(i % 10) + 1]], 1, n)

FillerLengths == {MIN_PROMPT_LENGTH, QuoteLength - 1, QuoteLength, QuoteLength + 1}

GenerateInputs ==
    {Str(Lead(l) \o Filler(n)) : l \in 0..MaxPad, n \in FillerLengths}
        \cup {Str(Vocabulary[i]) : i \in 1..Len(Vocabulary)}
        \cup {RecetaPrompt, ShortPrompt, LongPrompt, Str(<<>>), Undefined}

CallerSignal == 1

InitGenerate ==
    /\ HookInit
    /\ arg \in GenerateInputs
    /\ ret = NotCalled

\* the caller's AbortController.abort()
AbortSignal ==
    /\ ret.gen.abortedAt = "never"
    /\ ret' = [ret EXCEPT !.gen.abortedAt =
                  CASE ret.gen.phase = "not called" -> "before call"
                    [] ret.gen.phase = "waiting" -> "during wait"
                    [] ret.gen.phase = "settled" -> "after settle"]
    /\ UNCHANGED arg
    /\ UNCHANGED hookVars

\* generateText({prompt: arg}, signal) up to its await
CallGenerateText(signal) ==
    /\ ret.gen.phase = "not called"
    /\ LET begun == generateTextBegin([prompt |-> arg], signal,
                                      IF ret.gen.abortedAt = "never" THEN {}
                                      ELSE {CallerSignal})
       IN  ret' = [ret EXCEPT !.gen =
                      [phase |-> IF begun.threw THEN "settled" ELSE "waiting",
                       signal |-> signal,
                       waited |-> FALSE,
                       abortedAt |-> ret.gen.abortedAt,
                       outcome |-> begun]]
    /\ UNCHANGED arg
    /\ UNCHANGED hookVars

\* the delay has elapsed: generateText runs from its await to its end
ResumeGenerateText ==
    /\ ret.gen.phase = "waiting"
    /\ \E o \in generateTextResume([prompt |-> arg], ret.gen.signal,
                                   IF ret.gen.abortedAt = "never" THEN {}
                                   ELSE {CallerSignal}) :
          ret' = [ret EXCEPT !.gen.phase = "settled",
                             !.gen.waited = TRUE,
                             !.gen.outcome = o]
    /\ UNCHANGED arg
    /\ UNCHANGED hookVars

NextGenerate ==
    \/ AbortSignal
    \/ \E signal \in {NoSignal, CallerSignal} : CallGenerateText(signal)
    \/ ResumeGenerateText

SpecGenerate == InitGenerate /\ [][NextGenerate]_vars

-----------------------------------------------------------------------------
(* Properties of the hook, checked under Spec *)

\* C1: a generate call whose controller was aborted while it waited leaves the
\* state as it is when its wait finishes, whatever was issued in between
C1_CancelledCallLeavesState ==
    [][\A c \in pending : (c \notin pending' /\ c.id \in aborted) => state' = state]_vars

\* C2: once abort() has hit a waiting call and no generate has been issued
\* since, the status is idle and stays idle when the wait finishes
C2_AbortStaysIdle == quietAbort => state.status = "idle"

C2_Witness ==
    /\ quietAbort
    /\ lastOp.op = "settle"
    /\ lastOp.outcome = "cancelled"
    /\ pending = {}

\* C3: at most one generate call that has not been cancelled is waiting
C3_AtMostOneLive == Cardinality({c \in pending : c.id \notin aborted}) <= 1

C3_Witness ==
    /\ Cardinality(pending) >= 2
    /\ \E c \in pending : c.id \notin aborted
    /\ \E c \in pending : c.id \in aborted

C5_InvalidPromptIsLocalError ==
    [][(/\ lastOp'.op = "generate"
        /\ \/ lastOp'.prompt.type # "string"
           \/ Len(trim(lastOp'.prompt.chars)) \notin MIN_PROMPT_LENGTH..MAX_PROMPT_LENGTH)
          => /\ state'.status = "error"
             /\ state'.error = validatePrompt(lastOp'.prompt).error
             /\ state'.error \in {"El prompt es requerido",
                                  "El prompt debe tener al menos 3 caracteres",
                                  "El prompt no puede exceder 2000 caracteres"}
             /\ state'.data = NullText
             /\ state'.isError /\ ~state'.isLoading /\ ~state'.isSuccess
             /\ UNCHANGED <<isGeneratingRef, abortControllerRef, aborted, pending, nextId>>]_vars

C5_Witness ==
    /\ lastOp.op = "generate"
    /\ lastOp.outcome = "invalid"
    /\ state.status = "error"
    /\ isGeneratingRef
    /\ pending # {}


\* C15: reset() cancels what is in flight, clears the marker and writes the
\* initial state, and while no generate is issued afterwards the state stays
\* the initial state, also when the cancelled call's wait finishes
C15_ResetRestoresInitialState ==
    /\ [](quietReset => state = INITIAL_STATE)
    /\ [][lastOp'.op = "reset"
             => /\ state' = [status |-> "idle", data |-> NullText, error |-> "null",
                             isLoading |-> FALSE, isSuccess |-> FALSE, isError |-> FALSE]
                /\ ~isGeneratingRef'
                /\ \A c \in pending' : c.id \in aborted']_vars

C15_Witness ==
    /\ quietReset
    /\ lastOp.op = "settle"
    /\ lastOp.outcome = "cancelled"
    /\ state = INITIAL_STATE

\* C16: the state after abort() equals the state after reset(), which is the
\* initial state
C16_AbortEqualsReset ==
    [][lastOp'.op = "abort" => state' = INITIAL_STATE]_vars

\* C17: from every reachable state abort() leaves the status idle
C17_AbortLeavesIdle ==
    [][lastOp'.op = "abort" => state'.status = "idle"]_vars

\* C18: a generate call that passed the guard leaves the marker clear when it
\* completes, and a generate is refused only while such a call is still waiting
C18_MarkerClearedOnCompletion ==
    [][/\ \A c \in pending : c \notin pending' => ~isGeneratingRef'
       /\ (lastOp'.op = "generate" /\ lastOp'.outcome = "refused") => pending # {}]_vars

C18_Witness ==
    /\ lastOp.op = "settle"
    /\ lastOp.outcome = "live"
    /\ state.status = "success"
    /\ ~isGeneratingRef

\* C20: when abort() or reset() cancels a waiting generate call, its
\* generateText call ends as REQUEST_ABORTED
C20_CancelReachesGenerateText ==
    [][\A c \in pending :
          (c \notin pending' /\ c.id \in aborted)
             => (lastOutcome'.threw /\ lastOutcome'.code = "REQUEST_ABORTED")]_vars

\* C21: a call that generate started and that is not cancelled ends its wait
\* (every started wait finishes), and the step that ends it writes status
\* success with error null and, as data, a complete result of the call's own
\* request; it never writes the error state
C21_LiveCallEndsInSuccess ==
    /\ [][\A c \in pending :
              (c \notin pending' /\ c.id \notin aborted)
                 => /\ state'.status = "success"
                    /\ state'.error = "null"
                    /\ state'.isSuccess /\ ~state'.isError /\ ~state'.isLoading
                    /\ state'.data # NullText
                    /\ Returned(state'.data) \in generateTextResume(c.request, NoSignal, {})
                    /\ state'.data.key = detectPromptCategory(c.request.prompt.chars)]_vars
    /\ \A id \in 1..MaxCalls :
           ((\E c \in pending : c.id = id) /\ id \notin aborted)
              ~> (id \in aborted \/ ~(\E c \in pending : c.id = id))

C21_Witness ==
    /\ lastOp.op = "settle"
    /\ lastOp.outcome = "live"
    /\ lastOp.id > 1
    /\ state.status = "success"
    /\ state.data.key = "null"
    /\ state.data.echo = PlainPrompt.chars

\* C24: the status moves only along the edges idle -> loading -> success or
\* error: success is entered only from loading (so never directly from idle
\* or error), and loading is entered only by a generate call that passed
\* validation and the single-flight guard
C24_StatusFollowsEdges ==
    [][/\ (state'.status = "success" /\ state.status # "success")
            => state.status = "loading"
       /\ (state'.status = "loading" /\ state.status # "loading")
            => (lastOp'.op = "generate" /\ lastOp'.outcome = "started")]_vars

\* C25: the derived fields agree with the status, data is non-null only in
\* success and error is non-null only in error
C25_DerivedFieldsAgree ==
    /\ state.isLoading <=> state.status = "loading"
    /\ state.isSuccess <=> state.status = "success"
    /\ state.isError <=> state.status = "error"
    /\ state.data # NullText => state.status = "success"
    /\ state.error # "null" => state.status = "error"

\* C26: the in-flight marker is set exactly when the status is loading
C26_MarkerIffLoading == isGeneratingRef <=> state.status = "loading"

\* C27: generateText never throws for a request the hook sends, so the catch
\* branch of generate never writes the error state: every step into the
\* error state is a generate whose prompt failed the hook's own validation
C27_ErrorOnlyFromLocalValidation ==
    /\ [](/\ \A c \in pending : ~c.begun.threw /\ ~validateRequest(c.request).threw
          /\ ~lastOutcome.threw)
    /\ [][(state'.status = "error" /\ state' # state)
             => (/\ lastOp'.op = "generate"
                 /\ lastOp'.outcome = "invalid"
                 /\ ~validatePrompt(lastOp'.prompt).isValid
                 /\ state'.error = validatePrompt(lastOp'.prompt).error)]_vars

C27_Witness ==
    /\ lastOp.op = "settle"
    /\ lastOp.outcome = "live"
    /\ lastOp.prompt = Str(<<"r", "e", "c", "e", "t", "a">>)
    /\ ~lastOutcome.threw
    /\ state.status = "success"
    /\ state.data.key = "receta"

\* C30: when every started wait finishes, the status does not stay loading
\* forever: whenever it is loading it later is idle, success or error,
\* under every interleaving of generate, abort and reset
C30_LoadingEnds ==
    (state.status = "loading") ~> (state.status \in {"idle", "success", "error"})

C30_Witness ==
    /\ state.status = "loading"
    /\ Cardinality(pending) = MaxCalls
    /\ Cardinality(aborted) = MaxCalls - 1

-----------------------------------------------------------------------------
(* Properties of the validators, checked under SpecValidate *)

\* C6: validatePrompt accepts exactly the text prompts whose length without
\* the surrounding whitespace lies in 3..2000
C6_AcceptsExactlyTrimmedRange ==
    ret.vp.called =>
        /\ arg.type # "string" => ~ret.vp.isValid
        /\ \A l \in 0..MaxPad, n \in BodyLengths, t \in 0..MaxPad :
               arg = Str(Lead(l) \o Body(n) \o Trail(t))
                  => (ret.vp.isValid <=> (3 <= n /\ n <= 2000))

C6_Witness ==
    /\ ret.vp.called
    /\ ret.vp.isValid
    /\ Len(arg.chars) > MAX_PROMPT_LENGTH

\* C7 as stated: PROMPT_TOO_SHORT for every text prompt of trimmed length
\* below 3, the empty string included; PROMPT_TOO_LONG above 2000;
\* INVALID_PROMPT only for an absent or non-text prompt; status 400
C7_ErrorKindByRule ==
    ret.vr.called =>
        /\ ret.vr.error.threw => ret.vr.error.status = 400
        /\ (ret.vr.error.threw /\ ret.vr.error.code = "INVALID_PROMPT") => arg.type # "string"
        /\ arg.type # "string" => (ret.vr.error.threw /\ ret.vr.error.code = "INVALID_PROMPT")
        /\ \A l \in 0..MaxPad, n \in BodyLengths, t \in 0..MaxPad :
               arg = Str(Lead(l) \o Body(n) \o Trail(t))
                  => /\ n < 3 => (ret.vr.error.threw /\ ret.vr.error.code = "PROMPT_TOO_SHORT")
                     /\ n > 2000 => (ret.vr.error.threw /\ ret.vr.error.code = "PROMPT_TOO_LONG")

\* C7 amended: as stated, except that the empty string is reported as
\* INVALID_PROMPT: PROMPT_TOO_SHORT is for the non-empty text prompts of
\* trimmed length below 3, whitespace-only prompts included
C7_ErrorKindEmptyIsInvalid ==
    ret.vr.called =>
        /\ ret.vr.error.threw => ret.vr.error.status = 400
        /\ (ret.vr.error.threw /\ ret.vr.error.code = "INVALID_PROMPT")
              => (arg.type # "string" \/ arg.chars = <<>>)
        /\ (arg.type # "string" \/ arg.chars = <<>>)
              => (ret.vr.error.threw /\ ret.vr.error.code = "INVALID_PROMPT")
        /\ \A l \in 0..MaxPad, n \in BodyLengths, t \in 0..MaxPad :
               (arg = Str(Lead(l) \o Body(n) \o Trail(t)) /\ arg.chars # <<>>)
                  => /\ n < 3 => (ret.vr.error.threw /\ ret.vr.error.code = "PROMPT_TOO_SHORT")
                     /\ n > 2000 => (ret.vr.error.threw /\ ret.vr.error.code = "PROMPT_TOO_LONG")

C7_Witness ==
    /\ ret.vr.called
    /\ arg.type = "string"
    /\ arg.chars # <<>>
    /\ \A i \in 1..Len(arg.chars) : arg.chars[i] \in WhiteSpace
    /\ ret.vr.error.code = "PROMPT_TOO_SHORT"

\* C8: the standalone validator accepts a prompt exactly when validateRequest
\* does not throw for it, and exactly when validateRequest does not throw for
\* the trimmed prompt the hook sends
C8_ValidatorsAgree ==
    /\ (ret.vp.called /\ ret.vr.called) => (ret.vp.isValid <=> ~ret.vr.error.threw)
    /\ (ret.vp.called /\ ret.vrTrimmed.called)
          => (ret.vp.isValid <=> ~ret.vrTrimmed.error.threw)

C8_Witness ==
    /\ ret.vp.called /\ ret.vr.called /\ ret.vrTrimmed.called
    /\ ret.vp.isValid
    /\ arg.chars # trim(arg.chars)
    /\ Len(trim(arg.chars)) = MIN_PROMPT_LENGTH

-----------------------------------------------------------------------------
(* Properties of the classifier, checked under SpecClassify *)

\* C9: the category is that of the first rule, in the order names_male,
\* names_female, names default, product, email, story, slogan, code, recipe,
\* list, ideas, whose keyword test matches, and null when no rule matches
C9_FirstMatchingRuleWins ==
    ret.category # "not called" =>
        LET lp == toLowerCase(arg.chars)
            category == <<"nombres_chicos", "nombres_chicas", "nombres_chicos", "producto",
                          "email", "historia", "slogan", "codigo", "receta", "lista", "ideas">>
            matches(i) ==
                CASE i = 1 -> includesAny(lp, NameKeywords) /\ includesAny(lp, MaleKeywords)
                  [] i = 2 -> includesAny(lp, NameKeywords) /\ includesAny(lp, FemaleKeywords)
                  [] i = 3 -> /\ includes(lp, <<"n", "o", "m", "b", "r", "e">>)
                              /\ ~includes(lp, <<"c", "h", "i", "c", "o">>)
                              /\ ~includes(lp, <<"c", "h", "i", "c", "a">>)
                  [] i = 4 -> includesAny(lp, ProductKeywords)
                  [] i = 5 -> includesAny(lp, EmailKeywords)
                  [] i = 6 -> includesAny(lp, StoryKeywords)
                  [] i = 7 -> includesAny(lp, SloganKeywords)
                  [] i = 8 -> includesAny(lp, CodeKeywords)
                  [] i = 9 -> includesAny(lp, RecipeKeywords)
                  [] i = 10 -> includesAny(lp, ListKeywords)
                  [] i = 11 -> includesAny(lp, IdeaKeywords)
            matching == {i \in 1..11 : matches(i)}
        IN  IF matching = {} THEN ret.category = "null"
            ELSE \E i \in matching :
                    /\ \A j \in matching : i <= j
                    /\ ret.category = category[i]

C9_Witness ==
    /\ ret.category = "email"
    /\ includesAny(toLowerCase(arg.chars), StoryKeywords)
    /\ includesAny(toLowerCase(arg.chars), IdeaKeywords)

\* C10 as stated: a prompt that contains "nombre" and "chica" is classified
\* nombres_chicas, whatever else it contains
C10_NombreChicaIsFemale ==
    (/\ ret.category # "not called"
     /\ includes(toLowerCase(arg.chars), <<"n", "o", "m", "b", "r", "e">>)
     /\ includes(toLowerCase(arg.chars), <<"c", "h", "i", "c", "a">>))
        => ret.category = "nombres_chicas"

\* C10 amended: a prompt that contains "nombre" and "chica" is classified
\* nombres_chicas when it contains none of the male keywords chico, niño,
\* hombre, masculino, boy, male, and nombres_chicos when it contains one
C10_NombreChicaFemaleUnlessMale ==
    (/\ ret.category # "not called"
     /\ includes(toLowerCase(arg.chars), <<"n", "o", "m", "b", "r", "e">>)
     /\ includes(toLowerCase(arg.chars), <<"c", "h", "i", "c", "a">>))
        => ret.category =
              IF \E k \in {<<"c", "h", "i", "c", "o">>, <<"n", "i", "ñ", "o">>,
                           <<"h", "o", "m", "b", "r", "e">>,
                           <<"m", "a", "s", "c", "u", "l", "i", "n", "o">>,
                           <<"b", "o", "y">>, <<"m", "a", "l", "e">>} :
                     includes(toLowerCase(arg.chars), k)
              THEN "nombres_chicos"
              ELSE "nombres_chicas"

C10_Witness ==
    /\ ret.category = "nombres_chicas"
    /\ includes(toLowerCase(arg.chars), <<"n", "o", "m", "b", "r", "e">>)
    /\ includes(toLowerCase(arg.chars), <<"c", "h", "i", "c", "a">>)
    /\ includesAny(toLowerCase(arg.chars), ProductKeywords)


\* C11: a prompt with a name keyword whose only gender word is one of the six
\* female keywords is classified nombres_chicas.  The words of a prompt are
\* its maximal pieces without whitespace.
C11_FemaleWordIsFemale ==
    ret.category # "not called" =>
        LET lp == toLowerCase(arg.chars)
            isWord(i, j) ==
                /\ i <= j
                /\ \A k \in i..j : lp[k] \notin WhiteSpace
                /\ (i = 1 \/ lp[i - 1] \in WhiteSpace)
                /\ (j = Len(lp) \/ lp[j + 1] \in WhiteSpace)
            words == {SubSeq(lp, i, j) : <<i, j>> \in
                         {w \in (1..Len(lp)) \X (1..Len(lp)) : isWord(w[1], w[2])}}
        IN  (/\ includesAny(lp, NameKeywords)
             /\ words \cap FemaleKeywords # {}
             /\ words \cap MaleKeywords = {})
                => ret.category = "nombres_chicas"

\* C12: a prompt with a name keyword (nombre or names) and none of the male
\* or female keywords is classified nombres_chicos
C12_NameWithoutGenderIsMale ==
    (/\ ret.category # "not called"
     /\ includesAny(toLowerCase(arg.chars), NameKeywords)
     /\ ~includesAny(toLowerCase(arg.chars), MaleKeywords)
     /\ ~includesAny(toLowerCase(arg.chars), FemaleKeywords))
        => ret.category = "nombres_chicos"


\* C28: a prompt that contains "nombre", in any letter case, is classified as
\* nombres_chicos or nombres_chicas, whatever other keywords it contains
C28_NombreIsAlwaysNames ==
    (/\ ret.category # "not called"
     /\ includes(toLowerCase(arg.chars), <<"n", "o", "m", "b", "r", "e">>))
        => ret.category \in {"nombres_chicos", "nombres_chicas"}

C28_Witness ==
    /\ ret.category = "nombres_chicos"
    /\ includes(arg.chars, <<"n", "o", "m", "b", "r", "e">>)
    /\ includes(arg.chars, <<"p", "r", "o", "d", "u", "c", "t", "o">>)
    /\ includes(arg.chars, <<"s", "t", "o", "r", "y">>)
    /\ ~includesAny(toLowerCase(arg.chars), MaleKeywords \cup FemaleKeywords)

\* C22: two prompts that are equal after lower-casing get the same category,
\* the same prompt asked twice included
C22_SameCategoryUpToCase ==
    (/\ ret.again.called
     /\ toLowerCase(ret.again.prompt) = toLowerCase(arg.chars))
        => ret.again.category = ret.category

C22_Witness ==
    /\ ret.again.called
    /\ ret.again.prompt # arg.chars
    /\ toLowerCase(ret.again.prompt) = toLowerCase(arg.chars)
    /\ includes(arg.chars, <<"N", "i", "ñ", "a">>)
    /\ includes(arg.chars, <<"n", "o", "m", "b", "r", "e">>)
    /\ ret.category = "nombres_chicas"
    /\ ret.again.category = "nombres_chicas"

-----------------------------------------------------------------------------
(* Properties of generateText, checked under SpecGenerate *)

\* C13: for a prompt without category the result is one of the two generic
\* templates and quotes the first 50 characters of the prompt, followed by
\* "..." exactly when the prompt is longer than 50 characters
C13_GenericQuotesFirstFifty ==
    (/\ ret.gen.phase = "settled"
     /\ ~ret.gen.outcome.threw
     /\ detectPromptCategory(arg.chars) = "null")
        => LET result == ret.gen.outcome.result
               n == Len(arg.chars)
               quoted == IF n <= 50 THEN arg.chars ELSE [i \in 1..50 |-> arg.chars[i]]
           IN  /\ result.kind = "generic"
               /\ result.index \in {1, 2}
               /\ Len(result.echo) = IF n > 50 THEN 53 ELSE n
               /\ \A i \in 1..Len(quoted) : result.echo[i] = quoted[i]
               /\ n > 50 => \A i \in 51..53 : result.echo[i] = "."

C13_Witness ==
    /\ ret.gen.phase = "settled"
    /\ ~ret.gen.outcome.threw
    /\ ret.gen.outcome.result.kind = "generic"
    /\ Len(arg.chars) = 50
    /\ ret.gen.outcome.result.echo = arg.chars

\* C14: for a prompt that resolves to a category the result is a template of
\* that category's list; for every successful response tokensUsed is
\* floor(length(result) / 4) and model is the fixed tag
C14_TemplateOfCategoryAndTokens ==
    (ret.gen.phase = "settled" /\ ~ret.gen.outcome.threw)
        => LET result == ret.gen.outcome.result
               category == detectPromptCategory(arg.chars)
               tokens == ret.gen.outcome.metadata.tokensUsed
           IN  /\ category # "null"
                  => /\ result.kind = "specific"
                     /\ result.key = category
                     /\ result.index \in 1..Len(SPECIFIC_RESPONSES[category])
               /\ 4 * tokens <= length(result)
               /\ length(result) < 4 * tokens + 4
               /\ ret.gen.outcome.metadata.model = "simulated-ai-v1"

C14_Witness ==
    /\ ret.gen.phase = "settled"
    /\ ~ret.gen.outcome.threw
    /\ ret.gen.outcome.result.key = "receta"
    /\ ret.gen.outcome.metadata.tokensUsed = 181


\* C19: a valid request whose signal is already aborted fails with
\* REQUEST_ABORTED (499) without waiting; one whose signal is aborted during
\* the wait fails with REQUEST_ABORTED (499) after the wait, with nothing
\* classified or synthesized; a signal aborted later, or never, leaves the result
C19_TwoCheckpoints ==
    (/\ ret.gen.phase = "settled"
     /\ ret.gen.signal # NoSignal
     /\ arg.type = "string"
     /\ Len(trim(arg.chars)) \in MIN_PROMPT_LENGTH..MAX_PROMPT_LENGTH)
        => LET o == ret.gen.outcome
               isAborted == /\ o.threw
                            /\ o.code = "REQUEST_ABORTED"
                            /\ o.status = 499
                            /\ o.result = NullText
           IN  /\ ret.gen.abortedAt = "before call" => (isAborted /\ ~ret.gen.waited)
               /\ ret.gen.abortedAt = "during wait" => (isAborted /\ ret.gen.waited)
               /\ ret.gen.abortedAt \in {"never", "after settle"}
                     => (~o.threw /\ o.result # NullText /\ ret.gen.waited)

C19_Witness ==
    /\ ret.gen.phase = "settled"
    /\ ret.gen.signal # NoSignal
    /\ ret.gen.abortedAt = "during wait"
    /\ ret.gen.waited
    /\ ret.gen.outcome.code = "REQUEST_ABORTED"

\* C23: generateText on a request whose prompt is invalid throws the
\* validation error of that prompt, with status 400 and never REQUEST_ABORTED,
\* also when the caller's signal was aborted before the call; the call does
\* not wait and no text is classified or synthesized for it
C23_ValidationComesFirst ==
    (/\ ret.gen.phase = "settled"
     /\ \/ arg.type # "string"
        \/ Len(trim(arg.chars)) \notin MIN_PROMPT_LENGTH..MAX_PROMPT_LENGTH)
        => /\ ret.gen.outcome.threw
           /\ ret.gen.outcome.code # "REQUEST_ABORTED"
           /\ ret.gen.outcome.code =
                  IF arg.type # "string" \/ arg.chars = <<>> THEN "INVALID_PROMPT"
                  ELSE IF Len(trim(arg.chars)) < MIN_PROMPT_LENGTH THEN "PROMPT_TOO_SHORT"
                  ELSE "PROMPT_TOO_LONG"
           /\ ret.gen.outcome.status = 400
           /\ ~ret.gen.waited
           /\ ret.gen.outcome.result = NullText

C23_Witness ==
    /\ ret.gen.phase = "settled"
    /\ ret.gen.signal = CallerSignal
    /\ ret.gen.abortedAt = "before call"
    /\ arg = ShortPrompt
    /\ ret.gen.outcome.code = "PROMPT_TOO_SHORT"
    /\ ~ret.gen.waited

\* C29: the result text of a prompt that resolves to a category is fixed by
\* the category alone, because the template list of every category has
\* exactly one entry; no random choice shows in it
C29_CategoryTextIsDeterministic ==
    /\ \A key \in DOMAIN SPECIFIC_RESPONSES : Len(SPECIFIC_RESPONSES[key]) = 1
    /\ (/\ ret.gen.phase = "settled"
        /\ ~ret.gen.outcome.threw
        /\ detectPromptCategory(arg.chars) # "null")
          => ret.gen.outcome.result =
                 [kind |-> "specific", key |-> detectPromptCategory(arg.chars),
                  index |-> 1, echo |-> <<>>]

C29_Witness ==
    /\ ret.gen.phase = "settled"
    /\ ret.gen.waited
    /\ arg = RecetaPrompt
    /\ ret.gen.outcome.result.kind = "specific"
    /\ ret.gen.outcome.result.key = "receta"
    /\ ret.gen.outcome.result.index = 1

====
